---- MODULE Spec2Model ----
(***************************************************************************)
(* A model of the e-commerce analytics pipeline:                           *)
(*   generate_data.py   the synthetic data generator (five CSV files),     *)
(*   load_database.py   the SQLite loader and its integrity checks,        *)
(*   main.py            the orchestrator of the steps and the exit code.   *)
(*                                                                         *)
(* Money is held in cents (an integer), a date as a day number.  A value   *)
(* drawn from the random source is a nondeterministic choice from a small  *)
(* sample of the range the code draws from.                                *)
(***************************************************************************)
EXTENDS Integers, Sequences, FiniteSets, TLC

VARIABLES
    pc,               \* position of the single thread of control
    args,             \* the parsed command line: skip_data, skip_load, skip_query
    now,              \* the clock of the run, a day number
    NUM_CUSTOMERS,    \* generate_data module globals, drawn when it is imported
    NUM_PRODUCTS,
    NUM_ORDERS,
    NUM_ORDER_ITEMS,
    customers,        \* the generator's in-memory lists
    products,
    orders,
    order_items,
    payments,
    order_totals,     \* generate_order_items' running totals, order_id -> cents
    csv,              \* the data directory: file name -> [exists, rows, writes]
    dbExists,         \* whether the database file exists
    db,               \* the committed content of the database: table -> set of rows
    foreign_keys,     \* PRAGMA foreign_keys of the loader's connection
    read,             \* the file the latest load_csv_to_table call found
    loaded,           \* what load_csv_to_table returned, per table (-1: not called)
    total_loaded,     \* load_database.main's running sum of the returned counts
    log,              \* the loader's reports: a set of [table, what]
    report,           \* the counts verify_data found, <<>> before it ran
    steps,            \* the steps run_pipeline executed, with what each returned
    results,          \* the rows step_3_run_query returned
    output,           \* output.csv: [exists, rows]
    exitCode,         \* the process's exit code, -1 while it runs
    previous          \* what the run of the loader before this one left, <<>> if none

genVars  == <<NUM_CUSTOMERS, NUM_PRODUCTS, NUM_ORDERS, NUM_ORDER_ITEMS,
              customers, products, orders, order_items, payments, order_totals>>
loadVars == <<dbExists, db, foreign_keys, read, loaded, total_loaded, log, report>>
pipeVars == <<args, now, steps, results, output, exitCode, previous>>
vars     == <<pc, genVars, csv, loadVars, pipeVars>>

-----------------------------------------------------------------------------
(* Bounds of the model.                                                    *)

\* The code draws each count from 100..300 (150..300 for the order items);
\* the model draws it from 1..Max.
MaxCustomers  == 2
MaxProducts   == 2
MaxOrders     == 2
MaxOrderItems == 2

-----------------------------------------------------------------------------
(* Values.                                                                 *)

\* A Python value that may be None (an order's shipped_date, delivery_date).
None      == [k |-> "None"]
Some(v)   == [k |-> "obj", v |-> v]

\* A CSV cell is text: the text of a value, or the empty string.
EmptyText == [k |-> "empty"]
Text(v)   == [k |-> "text", v |-> v]

\* csv.DictWriter writes None as the empty string and anything else as str(value).
WriteCell(x) == IF x = None THEN EmptyText ELSE Text(x.v)
Str(v)       == Text(v)

\* A value of the database: NULL or a value.
NULL      == [k |-> "NULL"]
Val(v)    == [k |-> "val", v |-> v]

\* A file of the data directory.  The content of a file that this run has not
\* written is not tracked: it is whatever the read of it finds.
Unknown    == [known |-> FALSE]
NoFile     == [exists |-> FALSE, rows |-> <<>>, writes |-> 0]
FileOf(rs, prev) ==
    [exists |-> TRUE, rows |-> rs,
     writes |-> (IF prev = Unknown THEN 0 ELSE prev.writes) + 1]

Tables == <<"customers", "products", "orders", "order_items", "payments">>
TableSet == {Tables[i] : i \in 1..Len(Tables)}

RECURSIVE SumSeq(_)
SumSeq(s) == IF s = <<>> THEN 0 ELSE Head(s) + SumSeq(Tail(s))

\* round(x, 2) of x = n/d cents: the nearest cent, a tie to the even cent.
Round2(n, d) ==
    LET q == n \div d
        r == n % d
    IN  IF 2 * r < d THEN q
        ELSE IF 2 * r > d THEN q + 1
        ELSE IF q % 2 = 0 THEN q ELSE q + 1

-----------------------------------------------------------------------------
(* generate_data.py                                                        *)

\* Samples of the ranges the generator draws from.
Emails      == <<"a@x", "b@x", "c@x">>   \* fake.email(): nothing makes two draws differ
Prices      == {1000}                    \* round(random.uniform(price_min, price_max), 2)
Ratings     == {45}                      \* round(random.uniform(3.0, 5.0), 1), in tenths
OrderDates  == {100}                     \* the day drawn between '-1y' and 'now', from the first
ShipDays    == {1}                       \* random.randint(1, 7)
DeliverDays == {2}                       \* random.randint(2, 10)
FeeRates    == {200}                     \* random.uniform(0.02, 0.03), in 1/10000

\* The clock readings of the runs: a day and the day after.
Nows     == {400, 401}
FirstNow == CHOOSE n \in Nows : \A m \in Nows : n <= m

\* '-1y': timedelta(days=365).
YearDays == 365

\* fake.date_time_between(start_date='-1y', end_date='now'): the bounds are
\* taken from the clock, the day between them from the seeded generator.
date_time_between(clock, offset) == (clock - YearDays) + offset

order_statuses == <<"Pending", "Processing", "Shipped", "Delivered", "Cancelled">>

\* The run generates the files and neither loads nor queries them.
OnlyGenerates == args.skip_load /\ args.skip_query

\* random.choices(order_statuses, weights): any status where the run only
\* generates; where the orders go on to the loader, which reads a status only
\* to group by it, a status with no date, one with a shipped_date and the one
\* with both dates.
StatusDraws ==
    IF OnlyGenerates
    THEN {order_statuses[i] : i \in 1..Len(order_statuses)}
    ELSE {order_statuses[i] : i \in {1, 3, 4}}

\* One draw of an order's random fields.
OrderDraws ==
    [status : StatusDraws,
     order_date : OrderDates, ship : ShipDays, deliver : DeliverDays]

\* random.randint(1, 10) for the quantity.
MaxQuantity == 10

\* One draw of an order item's random fields: the quantity (1..10), the price
\* variation in percent (95..105), whether random.random() < 0.2, and the
\* discount rate in percent (5..20).  Where the run only generates, the
\* draws with the largest quantity, price and discount and with a discount
\* that is rounded are added.
ItemDraws ==
    { [quantity |-> 2,  variation |-> 100, discounted |-> FALSE, rate |-> 5],
      [quantity |-> 1,  variation |-> 100, discounted |-> TRUE,  rate |-> 10] }
    \cup
    (IF OnlyGenerates
     THEN { [quantity |-> MaxQuantity, variation |-> 105, discounted |-> TRUE, rate |-> 20],
            [quantity |-> 3,  variation |-> 97,  discounted |-> TRUE,  rate |-> 6] }
     ELSE {})

NUM_PAYMENTS == NUM_ORDERS

\* The k-th address Faker returns is, up to renaming, one of the first k.
EmailDraws(n) ==
    { e \in [1..n -> {Emails[j] : j \in 1..Len(Emails)}] :
        \A i \in 1..n : \E j \in 1..i : j <= Len(Emails) /\ e[i] = Emails[j] }

\* Module level: the seeds are set and the record counts are drawn.
ImportGenerateData ==
    /\ pc = "gen_import"
    /\ NUM_CUSTOMERS'   \in 1..MaxCustomers
    /\ NUM_PRODUCTS'    \in 1..MaxProducts
    /\ NUM_ORDERS'      \in 1..MaxOrders
    /\ NUM_ORDER_ITEMS' \in 1..MaxOrderItems
    /\ pc' = "gen_customers"
    /\ UNCHANGED <<customers, products, orders, order_items, payments, order_totals,
                   csv, loadVars, pipeVars>>

CustomerRow(c) == [customer_id |-> Str(c.customer_id), email |-> Str(c.email)]

generate_customers ==
    /\ pc = "gen_customers"
    /\ \E e \in EmailDraws(NUM_CUSTOMERS) :
         LET cs == [i \in 1..NUM_CUSTOMERS |-> [customer_id |-> i, email |-> e[i]]]
         IN  /\ customers' = cs
             /\ csv' = [csv EXCEPT !["customers"] =
                          FileOf([i \in 1..Len(cs) |-> CustomerRow(cs[i])], @)]
    /\ pc' = "gen_products"
    /\ UNCHANGED <<NUM_CUSTOMERS, NUM_PRODUCTS, NUM_ORDERS, NUM_ORDER_ITEMS,
                   products, orders, order_items, payments, order_totals,
                   loadVars, pipeVars>>

ProductRow(p) ==
    [product_id |-> Str(p.product_id), price |-> Str(p.price), rating |-> Str(p.rating)]

generate_products ==
    /\ pc = "gen_products"
    /\ \E d \in [1..NUM_PRODUCTS -> Prices \X Ratings] :
         LET ps == [i \in 1..NUM_PRODUCTS |->
                      [product_id |-> i, price |-> d[i][1], rating |-> d[i][2]]]
         IN  /\ products' = ps
             /\ csv' = [csv EXCEPT !["products"] =
                          FileOf([i \in 1..Len(ps) |-> ProductRow(ps[i])], @)]
    /\ pc' = "gen_orders"
    /\ UNCHANGED <<NUM_CUSTOMERS, NUM_PRODUCTS, NUM_ORDERS, NUM_ORDER_ITEMS,
                   customers, orders, order_items, payments, order_totals,
                   loadVars, pipeVars>>

OrderRow(o) ==
    [order_id      |-> Str(o.order_id),
     customer_id   |-> Str(o.customer_id),
     order_date    |-> Str(o.order_date),
     status        |-> Str(o.status),
     shipped_date  |-> WriteCell(o.shipped_date),
     delivery_date |-> WriteCell(o.delivery_date),
     total_amount  |-> Str(o.total_amount)]

OrdersFile(os, prev) == FileOf([i \in 1..Len(os) |-> OrderRow(os[i])], prev)

\* A variant that keeps both dates whatever the status.
NewOrder_dated(order_id, customer, d) ==
    [order_id      |-> order_id,
     customer_id   |-> customer.customer_id,
     order_date    |-> date_time_between(now, d.order_date),
     status        |-> d.status,
     shipped_date  |-> Some(date_time_between(now, d.order_date) + d.ship),
     delivery_date |-> Some(date_time_between(now, d.order_date) + d.ship + d.deliver),
     total_amount  |-> 0]

\* A variant that takes the customer's position in the list (from 0) for its id.
NewOrder_index(order_id, customer, d) ==
    [order_id      |-> order_id,
     customer_id   |-> customer.customer_id - 1,
     order_date    |-> date_time_between(now, d.order_date),
     status        |-> d.status,
     shipped_date  |-> IF d.status \in {"Shipped", "Delivered"}
                       THEN Some(date_time_between(now, d.order_date) + d.ship)
                       ELSE None,
     delivery_date |-> IF d.status = "Delivered"
                       THEN Some(date_time_between(now, d.order_date) + d.ship
                                 + d.deliver)
                       ELSE None,
     total_amount  |-> 0]

\* One iteration of generate_orders' loop: the order built from a draw.
NewOrder(order_id, customer, d) ==
    LET order_date    == date_time_between(now, d.order_date)
        shipped_date  == order_date + d.ship
        delivery_date == shipped_date + d.deliver
    IN  [order_id      |-> order_id,
         customer_id   |-> customer.customer_id,
         order_date    |-> order_date,
         status        |-> d.status,
         shipped_date  |-> IF d.status \in {"Shipped", "Delivered"}
                           THEN Some(shipped_date) ELSE None,
         delivery_date |-> IF d.status = "Delivered"
                           THEN Some(delivery_date) ELSE None,
         total_amount  |-> 0]

generate_orders ==
    /\ pc = "gen_orders"
    /\ \E d \in [1..NUM_ORDERS -> (1..Len(customers)) \X OrderDraws] :
         LET os == [i \in 1..NUM_ORDERS |-> NewOrder(i, customers[d[i][1]], d[i][2])]
         IN  /\ orders' = os
             /\ csv' = [csv EXCEPT !["orders"] = OrdersFile(os, @)]
    /\ pc' = "gen_items"
    /\ UNCHANGED <<NUM_CUSTOMERS, NUM_PRODUCTS, NUM_ORDERS, NUM_ORDER_ITEMS,
                   customers, products, order_items, payments, order_totals,
                   loadVars, pipeVars>>

\* A variant that leaves the discount out of the total.
NewOrderItem_gross(item_id, order, product, d) ==
    LET unit_price == Round2(product.price * d.variation, 100)
        subtotal   == Round2(unit_price * d.quantity, 1)
        discount   == IF d.discounted THEN Round2(subtotal * d.rate, 100) ELSE 0
    IN  [order_item_id |-> item_id,
         order_id      |-> order.order_id,
         product_id    |-> product.product_id,
         quantity      |-> d.quantity,
         unit_price    |-> unit_price,
         discount      |-> discount,
         total         |-> subtotal]

\* One iteration of generate_order_items' loop: the item built from a draw.
NewOrderItem(item_id, order, product, d) ==
    LET unit_price == Round2(product.price * d.variation, 100)
        subtotal   == Round2(unit_price * d.quantity, 1)
        discount   == IF d.discounted THEN Round2(subtotal * d.rate, 100) ELSE 0
        total      == Round2(subtotal - discount, 1)
    IN  [order_item_id |-> item_id,
         order_id      |-> order.order_id,
         product_id    |-> product.product_id,
         quantity      |-> d.quantity,
         unit_price    |-> unit_price,
         discount      |-> discount,
         total         |-> total]

\* A variant that assigns where the code adds: the last item's total stays.
RECURSIVE AddTotals_assign(_, _)
AddTotals_assign(totals, items) ==
    IF items = <<>> THEN totals
    ELSE AddTotals_assign([totals EXCEPT ![Head(items).order_id] = Head(items).total],
                          Tail(items))

\* order_totals[order['order_id']] += total, item after item.
RECURSIVE AddTotals(_, _)
AddTotals(totals, items) ==
    IF items = <<>> THEN totals
    ELSE AddTotals([totals EXCEPT ![Head(items).order_id] = @ + Head(items).total],
                   Tail(items))

OrderItemRow(it) ==
    [order_item_id |-> Str(it.order_item_id),
     order_id      |-> Str(it.order_id),
     product_id    |-> Str(it.product_id),
     quantity      |-> Str(it.quantity),
     unit_price    |-> Str(it.unit_price),
     discount      |-> Str(it.discount),
     total         |-> Str(it.total)]

\* generate_order_items up to the writing of order_items.csv.
generate_order_items ==
    /\ pc = "gen_items"
    /\ \E d \in [1..NUM_ORDER_ITEMS ->
                    (1..Len(orders)) \X (1..Len(products)) \X ItemDraws] :
         LET its == [i \in 1..NUM_ORDER_ITEMS |->
                       NewOrderItem(i, orders[d[i][1]], products[d[i][2]], d[i][3])]
             zero == [id \in {orders[i].order_id : i \in 1..Len(orders)} |-> 0]
         IN  /\ order_items' = its
             /\ order_totals' = AddTotals(zero, its)
             /\ csv' = [csv EXCEPT !["order_items"] =
                          FileOf([i \in 1..Len(its) |-> OrderItemRow(its[i])], @)]
    /\ pc' = "gen_totals"
    /\ UNCHANGED <<NUM_CUSTOMERS, NUM_PRODUCTS, NUM_ORDERS, NUM_ORDER_ITEMS,
                   customers, products, orders, payments, loadVars, pipeVars>>

\* The total_amount generate_order_items assigns to an order.
UpdatedTotal(order) == Round2(order_totals[order.order_id], 1)

\* A variant that assigns the totals and does not write orders.csv again.
update_order_totals_inMemory ==
    /\ pc = "gen_totals"
    /\ orders' = [i \in 1..Len(orders) |->
                    [orders[i] EXCEPT !.total_amount = UpdatedTotal(orders[i])]]
    /\ pc' = "gen_payments"
    /\ UNCHANGED <<NUM_CUSTOMERS, NUM_PRODUCTS, NUM_ORDERS, NUM_ORDER_ITEMS,
                   customers, products, order_items, payments, order_totals,
                   csv, loadVars, pipeVars>>

\* The rest of generate_order_items: the orders' totals are assigned and
\* orders.csv is written again.
update_order_totals ==
    /\ pc = "gen_totals"
    /\ LET os == [i \in 1..Len(orders) |->
                    [orders[i] EXCEPT !.total_amount = UpdatedTotal(orders[i])]]
       IN  /\ orders' = os
           /\ csv' = [csv EXCEPT !["orders"] = OrdersFile(os, @)]
    /\ pc' = "gen_payments"
    /\ UNCHANGED <<NUM_CUSTOMERS, NUM_PRODUCTS, NUM_ORDERS, NUM_ORDER_ITEMS,
                   customers, products, order_items, payments, order_totals,
                   loadVars, pipeVars>>

\* A variant that numbers the payments from 0 (enumerate without start=1).
NewPayment_fromZero(payment_id, order, fee) ==
    [payment_id      |-> payment_id - 1,
     order_id        |-> order.order_id,
     payment_amount  |-> order.total_amount,
     transaction_fee |-> Round2(order.total_amount * fee, 10000),
     transaction_id  |-> payment_id]

\* A variant that charges the transaction fee on top of the order's total.
NewPayment_withFee(payment_id, order, fee) ==
    [payment_id      |-> payment_id,
     order_id        |-> order.order_id,
     payment_amount  |-> order.total_amount + Round2(order.total_amount * fee, 10000),
     transaction_fee |-> Round2(order.total_amount * fee, 10000),
     transaction_id  |-> payment_id]

\* One iteration of generate_payments' loop.  transaction_id is 16 hex digits
\* of a fresh uuid4; two payments are taken never to draw the same one.
NewPayment(payment_id, order, fee) ==
    LET payment_amount == order.total_amount
    IN  [payment_id      |-> payment_id,
         order_id        |-> order.order_id,
         payment_amount  |-> payment_amount,
         transaction_fee |-> Round2(payment_amount * fee, 10000),
         transaction_id  |-> payment_id]

PaymentRow(p) ==
    [payment_id      |-> Str(p.payment_id),
     order_id        |-> Str(p.order_id),
     payment_amount  |-> Str(p.payment_amount),
     transaction_fee |-> Str(p.transaction_fee),
     transaction_id  |-> Str(p.transaction_id)]

\* A variant called before the totals of the orders are assigned.
generate_payments_early ==
    /\ pc = "gen_totals"
    /\ payments = <<>>
    /\ \E fee \in [1..Len(orders) -> FeeRates] :
         LET ps == [i \in 1..Len(orders) |-> NewPayment(i, orders[i], fee[i])]
         IN  /\ payments' = ps
             /\ csv' = [csv EXCEPT !["payments"] =
                          FileOf([i \in 1..Len(ps) |-> PaymentRow(ps[i])], @)]
    /\ pc' = "gen_totals"
    /\ UNCHANGED <<NUM_CUSTOMERS, NUM_PRODUCTS, NUM_ORDERS, NUM_ORDER_ITEMS,
                   customers, products, orders, order_items, order_totals,
                   loadVars, pipeVars>>

\* A variant that makes NUM_PAYMENTS payments, each for an order drawn at random.
generate_payments_random ==
    /\ pc = "gen_payments"
    /\ \E d \in [1..NUM_PAYMENTS -> (1..Len(orders)) \X FeeRates] :
         LET ps == [i \in 1..NUM_PAYMENTS |-> NewPayment(i, orders[d[i][1]], d[i][2])]
         IN  /\ payments' = ps
             /\ csv' = [csv EXCEPT !["payments"] =
                          FileOf([i \in 1..Len(ps) |-> PaymentRow(ps[i])], @)]
    /\ pc' = "gen_done"
    /\ UNCHANGED <<NUM_CUSTOMERS, NUM_PRODUCTS, NUM_ORDERS, NUM_ORDER_ITEMS,
                   customers, products, orders, order_items, order_totals,
                   loadVars, pipeVars>>

generate_payments ==
    /\ pc = "gen_payments"
    /\ \E fee \in [1..Len(orders) -> FeeRates] :
         LET ps == [i \in 1..Len(orders) |-> NewPayment(i, orders[i], fee[i])]
         IN  /\ payments' = ps
             /\ csv' = [csv EXCEPT !["payments"] =
                          FileOf([i \in 1..Len(ps) |-> PaymentRow(ps[i])], @)]
    /\ pc' = "gen_done"
    /\ UNCHANGED <<NUM_CUSTOMERS, NUM_PRODUCTS, NUM_ORDERS, NUM_ORDER_ITEMS,
                   customers, products, orders, order_items, order_totals,
                   loadVars, pipeVars>>

\* The generator run on its own (python3 generate_data.py), from an empty
\* data directory.
InitCommon ==
    /\ NUM_CUSTOMERS = 0 /\ NUM_PRODUCTS = 0 /\ NUM_ORDERS = 0 /\ NUM_ORDER_ITEMS = 0
    /\ customers = <<>> /\ products = <<>> /\ orders = <<>>
    /\ order_items = <<>> /\ payments = <<>>
    /\ order_totals = <<>>
    /\ foreign_keys = FALSE
    /\ read = <<>>
    /\ loaded = [t \in TableSet |-> -1]
    /\ total_loaded = 0
    /\ log = {}
    /\ report = <<>>
    /\ steps = <<>>
    /\ results = {}
    /\ output = [exists |-> FALSE, rows |-> {}]
    /\ exitCode = -1
    /\ previous = <<>>

InitGen ==
    /\ InitCommon
    /\ pc = "gen_import"
    /\ args = [skip_data |-> FALSE, skip_load |-> TRUE, skip_query |-> TRUE]
    /\ now \in Nows
    /\ csv = [t \in TableSet |-> NoFile]
    /\ dbExists = FALSE
    /\ db = [t \in TableSet |-> {}]

NextGen ==
    \/ ImportGenerateData
    \/ generate_customers
    \/ generate_products
    \/ generate_orders
    \/ generate_order_items
    \/ update_order_totals
    \/ generate_payments

SpecGen == InitGen /\ [][NextGen]_vars

-----------------------------------------------------------------------------
(* load_database.py                                                        *)

\* The longest file of the data directory that this run has not written.
MaxRows == 2

\* The longest file of a data directory that two runs of the loader read.
MaxReloadRows == 1

\* The check constraint of products.rating, 0..5, in tenths.
MaxRating == 50

\* The tolerance of the two aggregate checks of verify_data, 0.01, in cents.
Tolerance == 1

SeqsUpTo(S, n) == UNION {[1..k -> S] : k \in 0..n}

\* Samples of the rows of a file this run has not written.
RowSamples(t) ==
    CASE t = "customers" ->
           { [customer_id |-> Text(1), email |-> Text("a@x")],
             [customer_id |-> Text(2), email |-> Text("b@x")],
             [customer_id |-> Text(2), email |-> Text("a@x")] }
      [] t = "products" ->
           { [product_id |-> Text(1), price |-> Text(1000), rating |-> Text(45)],
             [product_id |-> Text(2), price |-> Text(1000), rating |-> Text(45)],
             [product_id |-> Text(2), price |-> Text(1000), rating |-> Text(60)] }
      [] t = "orders" ->
           { [order_id |-> Text(1), customer_id |-> Text(1), order_date |-> Text(100),
              status |-> Text("Delivered"), shipped_date |-> Text(101),
              delivery_date |-> Text(103), total_amount |-> Text(2900)],
             [order_id |-> Text(2), customer_id |-> Text(2), order_date |-> Text(100),
              status |-> Text("Pending"), shipped_date |-> EmptyText,
              delivery_date |-> EmptyText, total_amount |-> Text(0)],
             [order_id |-> Text(2), customer_id |-> EmptyText, order_date |-> Text(100),
              status |-> Text("Pending"), shipped_date |-> EmptyText,
              delivery_date |-> EmptyText, total_amount |-> Text(0)] }
      [] t = "order_items" ->
           { [order_item_id |-> Text(1), order_id |-> Text(1), product_id |-> Text(1),
              quantity |-> Text(2), unit_price |-> Text(1000), discount |-> Text(0),
              total |-> Text(2000)],
             [order_item_id |-> Text(2), order_id |-> Text(1), product_id |-> Text(1),
              quantity |-> Text(1), unit_price |-> Text(1000), discount |-> Text(100),
              total |-> Text(900)],
             [order_item_id |-> Text(2), order_id |-> Text(1), product_id |-> Text(2),
              quantity |-> Text(1), unit_price |-> Text(1000), discount |-> Text(99),
              total |-> Text(901)],
             [order_item_id |-> Text(3), order_id |-> Text(2), product_id |-> Text(1),
              quantity |-> Text(1), unit_price |-> Text(2), discount |-> Text(0),
              total |-> Text(2)] }
      [] t = "payments" ->
           { [payment_id |-> Text(1), order_id |-> Text(1), payment_amount |-> Text(2900),
              transaction_fee |-> Text(58), transaction_id |-> Text(1)],
             [payment_id |-> Text(2), order_id |-> Text(2), payment_amount |-> Text(2),
              transaction_fee |-> Text(0), transaction_id |-> Text(2)],
             [payment_id |-> Text(2), order_id |-> Text(1), payment_amount |-> Text(2901),
              transaction_fee |-> Text(58), transaction_id |-> Text(2)],
             [payment_id |-> Text(3), order_id |-> Text(2), payment_amount |-> Text(0),
              transaction_fee |-> Text(0), transaction_id |-> Text(1)] }

\* What a read of a file of the data directory may find.
FilesFound(t) ==
    IF csv[t] # Unknown THEN {csv[t]}
    ELSE {NoFile} \cup {[exists |-> TRUE, rows |-> rs, writes |-> 0] :
                          rs \in SeqsUpTo(RowSamples(t), MaxRows)}

\* The schema of create_tables, as far as the rows of the model go.
PrimaryKey(t) ==
    CASE t = "customers"   -> "customer_id"
      [] t = "products"    -> "product_id"
      [] t = "orders"      -> "order_id"
      [] t = "order_items" -> "order_item_id"
      [] t = "payments"    -> "payment_id"

NotNullCols(t) ==
    CASE t = "customers"   -> {"email"}
      [] t = "products"    -> {"price"}
      [] t = "orders"      -> {"customer_id", "order_date", "status"}
      [] t = "order_items" -> {"order_id", "product_id", "quantity", "unit_price", "total"}
      [] t = "payments"    -> {"order_id", "payment_amount"}

UniqueCols(t) ==
    CASE t = "customers" -> {"email"}
      [] t = "payments"  -> {"order_id", "transaction_id"}
      [] OTHER           -> {}

\* The foreign keys of a table: <<column, referenced table>>.
ForeignKeys(t) ==
    CASE t = "orders"      -> {<<"customer_id", "customers">>}
      [] t = "order_items" -> {<<"order_id", "orders">>, <<"product_id", "products">>}
      [] t = "payments"    -> {<<"order_id", "orders">>}
      [] OTHER             -> {}

CheckHolds(t, row) ==
    t = "products" /\ row.rating # NULL
        => (row.rating.v >= 0 /\ row.rating.v <= MaxRating)

EmptyDb == [t \in TableSet |-> {}]

\* A variant that binds every cell as the text it is, the empty one too.
ToValue_asText(cell) == IF cell = EmptyText THEN [k |-> "val"] ELSE Val(cell.v)

\* values = [val if val != '' else None for val in row.values()]
ToValue(cell) == IF cell = EmptyText THEN NULL ELSE Val(cell.v)

SetMax(S) == CHOOSE x \in S : \A y \in S : y <= x

\* An INTEGER PRIMARY KEY given NULL takes the next rowid.
NextRowid(rows, pk) ==
    IF rows = {} THEN 1 ELSE SetMax({r[pk].v : r \in rows}) + 1

\* cursor.execute(insert_sql, values) on the tables T of the open transaction:
\* the constraint that fails, or "ok" and the tables with the row.
Violation(T, t, row, fk) ==
    LET pk == PrimaryKey(t)
    IN  IF \E c \in NotNullCols(t) : row[c] = NULL THEN "NOT NULL"
        ELSE IF \E r \in T[t] : r[pk] = row[pk] THEN "UNIQUE"
        ELSE IF \E c \in UniqueCols(t) :
                   row[c] # NULL /\ \E r \in T[t] : r[c] = row[c] THEN "UNIQUE"
        ELSE IF ~CheckHolds(t, row) THEN "CHECK"
        ELSE IF fk /\ \E f \in ForeignKeys(t) :
                   /\ row[f[1]] # NULL
                   /\ ~\E parent \in T[f[2]] : parent[PrimaryKey(f[2])] = row[f[1]]
             THEN "FOREIGN KEY"
        ELSE "ok"

InsertRow(T, t, cells, fk) ==
    LET vals == [c \in DOMAIN cells |-> ToValue(cells[c])]
        pk   == PrimaryKey(t)
        row  == IF vals[pk] = NULL
                THEN [vals EXCEPT ![pk] = Val(NextRowid(T[t], pk))] ELSE vals
        v    == Violation(T, t, row, fk)
    IN  [error |-> v,
         tables |-> IF v = "ok" THEN [T EXCEPT ![t] = @ \cup {row}] ELSE T]

\* The loop of load_csv_to_table: the rows are inserted in the order of the
\* file until one fails.
RECURSIVE InsertRows(_, _, _, _, _)
InsertRows(T, t, rows, fk, count) ==
    IF rows = <<>> THEN [error |-> "ok", tables |-> T, row_count |-> count]
    ELSE LET one == InsertRow(T, t, Head(rows), fk)
         IN  IF one.error # "ok"
             THEN [error |-> one.error, tables |-> T, row_count |-> count]
             ELSE InsertRows(one.tables, t, Tail(rows), fk, count + 1)

\* A variant without the rollback: the rows inserted before the failing one
\* stay in the transaction and are committed with the next batch.
AfterBatch_noRollback(committed, batch) == batch.tables

\* A variant whose rollback starts the whole store afresh.
AfterBatch_reset(committed, batch) ==
    IF batch.error = "ok" THEN batch.tables ELSE EmptyDb

\* What the connection holds after load_csv_to_table: the commit of the whole
\* batch, or on an error the rollback to the last commit.
AfterBatch(committed, batch) ==
    IF batch.error = "ok" THEN batch.tables ELSE committed

\* A variant that returns the rows counted before the error.
ReturnedCount_counted(file, batch) ==
    IF ~file.exists THEN 0 ELSE batch.row_count

\* What load_csv_to_table returns.
ReturnedCount(file, batch) ==
    IF ~file.exists THEN 0
    ELSE IF batch.error = "ok" THEN batch.row_count ELSE 0

\* What load_csv_to_table reports.
LoadReport(t, file, batch) ==
    IF ~file.exists THEN {[table |-> t, what |-> "CSV file not found"]}
    ELSE IF batch.error = "ok" THEN {}
    ELSE {[table |-> t, what |-> batch.error]}

\* create_connection's report of the removal of an existing database file.
Removed ==
    IF dbExists THEN {[table |-> "", what |-> "Removed existing database"]} ELSE {}

\* A variant that opens the existing database file as it is.
create_connection_keep ==
    /\ pc = "load_connect"
    /\ \/ /\ dbExists' = TRUE
          /\ db' = db
          /\ foreign_keys' = TRUE
          /\ log' = log \cup Removed
          /\ pc' = "load_schema"
       \/ /\ dbExists
          /\ UNCHANGED <<dbExists, db, foreign_keys, log>>
          /\ pc' = "load_raised"
       \/ /\ dbExists' = FALSE
          /\ db' = EmptyDb
          /\ log' = log \cup Removed
          /\ UNCHANGED foreign_keys
          /\ pc' = "load_returned"
    /\ UNCHANGED <<genVars, csv, read, loaded, total_loaded, report, pipeVars>>

\* A variant without the PRAGMA: SQLite's default, foreign keys not enforced.
create_connection_noPragma ==
    /\ pc = "load_connect"
    /\ \/ /\ dbExists' = TRUE
          /\ db' = EmptyDb
          /\ foreign_keys' = FALSE
          /\ log' = log \cup Removed
          /\ pc' = "load_schema"
       \/ /\ dbExists
          /\ UNCHANGED <<dbExists, db, foreign_keys, log>>
          /\ pc' = "load_raised"
       \/ /\ dbExists' = FALSE
          /\ db' = EmptyDb
          /\ log' = log \cup Removed
          /\ UNCHANGED foreign_keys
          /\ pc' = "load_returned"
    /\ UNCHANGED <<genVars, csv, read, loaded, total_loaded, report, pipeVars>>

\* create_connection: an existing database file is removed and a new one is
\* opened with the foreign keys enforced.  The removal or the opening may fail.
create_connection ==
    /\ pc = "load_connect"
    /\ \/ /\ dbExists' = TRUE
          /\ db' = EmptyDb
          /\ foreign_keys' = TRUE
          /\ log' = log \cup Removed
          /\ pc' = "load_schema"
       \/ /\ dbExists              \* os.remove raises: main is left by the exception
          /\ UNCHANGED <<dbExists, db, foreign_keys, log>>
          /\ pc' = "load_raised"
       \/ /\ dbExists' = FALSE     \* sqlite3.Error: None is returned, main returns
          /\ db' = EmptyDb
          /\ log' = log \cup Removed
          /\ UNCHANGED foreign_keys
          /\ pc' = "load_returned"
    /\ UNCHANGED <<genVars, csv, read, loaded, total_loaded, report, pipeVars>>

\* create_tables: CREATE TABLE IF NOT EXISTS creates the tables that the file
\* lacks, empty, and leaves a table that it has with its rows.
create_tables ==
    /\ pc = "load_schema"
    /\ db' = [t \in TableSet |-> db[t]]
    /\ pc' = "load_data"
    /\ UNCHANGED <<genVars, csv, dbExists, foreign_keys, read, loaded, total_loaded,
                   log, report, pipeVars>>

\* A variant that loads the orders first.
load_order_ordersFirst ==
    <<"orders", "customers", "products", "order_items", "payments">>

\* The table main's loop over load_order has come to.
load_order == Tables
NextTable  == CHOOSE i \in 1..Len(load_order) :
                 /\ loaded[load_order[i]] = -1
                 /\ \A j \in 1..(i - 1) : loaded[load_order[j]] # -1

\* One iteration of main's loop: load_csv_to_table and the sum of its result.
load_csv_to_table ==
    /\ pc = "load_data"
    /\ LET t == load_order[NextTable]
       IN  \E file \in FilesFound(t) :
             LET batch == InsertRows(db, t, file.rows, foreign_keys, 0)
                 rows  == ReturnedCount(file, batch)
             IN  /\ read' = [table |-> t, file |-> file]
                 /\ db' = AfterBatch(db, batch)
                 /\ log' = log \cup LoadReport(t, file, batch)
                 /\ loaded' = [loaded EXCEPT ![t] = rows]
                 /\ total_loaded' = total_loaded + rows
                 /\ pc' = IF NextTable = Len(load_order) THEN "load_verify"
                          ELSE "load_data"
    /\ UNCHANGED <<genVars, csv, dbExists, foreign_keys, report, pipeVars>>

\* verify_data's counts.
Orphans(child, col, parent) ==
    Cardinality({r \in db[child] :
                   ~\E q \in db[parent] : q[PrimaryKey(parent)] = r[col]})

Abs(x) == IF x < 0 THEN -x ELSE x

RECURSIVE SumOf(_, _)
SumOf(rows, col) ==
    IF rows = {} THEN 0
    ELSE LET r == CHOOSE x \in rows : TRUE
         IN  (IF r[col] = NULL THEN 0 ELSE r[col].v) + SumOf(rows \ {r}, col)

\* COALESCE(SUM(oi.total), 0) over the items of an order.
ItemSum(o) == SumOf({i \in db["order_items"] : i.order_id = o.order_id}, "total")

OrderDiff(o) == Abs(o.total_amount.v - ItemSum(o))

PaidOrders(p) == {o \in db["orders"] : o.order_id = p.order_id}

\* ABS(a - b) > 0.01 is evaluated in binary floating point: a difference of
\* 0.01 exactly may compare either way, a smaller one never exceeds it and a
\* larger one always does.
MismatchCounts(diffs) ==
    LET sure == Cardinality({x \in DOMAIN diffs : diffs[x] > Tolerance})
        edge == Cardinality({x \in DOMAIN diffs : diffs[x] = Tolerance})
    IN  sure..(sure + edge)

OrderDiffs ==
    [o \in {o \in db["orders"] : o.total_amount # NULL} |-> OrderDiff(o)]

\* A variant that ranges over the orders: an order without a payment counts
\* as paid 0.
PaymentDiffs_perOrder ==
    [o \in {o \in db["orders"] : o.total_amount # NULL} |->
        IF \E p \in db["payments"] : p.order_id = o.order_id
        THEN LET p == CHOOSE p \in db["payments"] : p.order_id = o.order_id
             IN  Abs(p.payment_amount.v - o.total_amount.v)
        ELSE Abs(o.total_amount.v)]

PaymentDiffs ==
    [p \in {p \in db["payments"] :
              \E o \in PaidOrders(p) : o.total_amount # NULL} |->
        LET o == CHOOSE o \in PaidOrders(p) : TRUE
        IN  Abs(p.payment_amount.v - o.total_amount.v)]

\* generate_summary_stats formats SUM(total_amount) and, per status, the
\* AVG(total_amount) with ':,.2f', which raises on the None of an empty sum.
StatsRaise ==
    \/ \A o \in db["orders"] : o.total_amount = NULL
    \/ \E o \in db["orders"] :
         \A q \in db["orders"] : q.status = o.status => q.total_amount = NULL

\* The rest of main: verify_data, generate_summary_stats, the final message
\* (or the report of the exception) and the closing of the connection.
verify_data ==
    /\ pc = "load_verify"
    /\ \E mt \in MismatchCounts(OrderDiffs), mp \in MismatchCounts(PaymentDiffs) :
         report' = [orphan_orders       |-> Orphans("orders", "customer_id", "customers"),
                    orphan_items        |-> Orphans("order_items", "order_id", "orders"),
                    orphan_products     |-> Orphans("order_items", "product_id", "products"),
                    orphan_payments     |-> Orphans("payments", "order_id", "orders"),
                    mismatched_totals   |-> mt,
                    mismatched_payments |-> mp]
    /\ log' = log \cup {[table |-> "",
                         what  |-> IF StatsRaise THEN "Error during ETL process"
                                   ELSE "SUCCESS"]}
    /\ pc' = "load_returned"
    /\ UNCHANGED <<genVars, csv, dbExists, db, foreign_keys, read, loaded,
                   total_loaded, pipeVars>>

\* The loader run on its own (python3 load_database.py), over a data
\* directory and a database file left by earlier runs.
PriorDb ==
    [EmptyDb EXCEPT
       !["customers"] = {[customer_id |-> Val(9), email |-> Val("z@x")]},
       !["orders"]    = {[order_id |-> Val(9), customer_id |-> Val(9),
                          order_date |-> Val(1), status |-> Val("Pending"),
                          shipped_date |-> NULL, delivery_date |-> NULL,
                          total_amount |-> Val(0)]}]

InitStore ==
    \/ dbExists = FALSE /\ db = EmptyDb
    \/ dbExists = TRUE  /\ db = PriorDb

InitLoad ==
    /\ InitCommon
    /\ pc = "load_connect"
    /\ args = [skip_data |-> TRUE, skip_load |-> FALSE, skip_query |-> TRUE]
    /\ now = FirstNow
    /\ csv = [t \in TableSet |-> Unknown]
    /\ InitStore

NextLoad ==
    \/ create_connection
    \/ create_tables
    \/ load_csv_to_table
    \/ verify_data

SpecLoad == InitLoad /\ [][NextLoad]_vars

\* The files of a data directory that stays as it is from one run of the
\* loader to the next.
ReloadFiles(t) ==
    {NoFile} \cup {[exists |-> TRUE, rows |-> rs, writes |-> 0] :
                     rs \in SeqsUpTo(RowSamples(t), MaxReloadRows)}

\* What a run of the loader reported, apart from the removal of the database
\* file it found.
Reports == {e \in log : e.what # "Removed existing database"}

\* python3 load_database.py once more, after a run of it has ended: a new
\* process, over the files and the database file as they are.
load_database_again ==
    /\ pc \in {"load_returned", "load_raised"}
    /\ previous = <<>>
    /\ previous' = [dbExists |-> dbExists, db |-> db, loaded |-> loaded,
                    total_loaded |-> total_loaded, log |-> Reports,
                    verified |-> report # <<>>]
    /\ pc' = "load_connect"
    /\ foreign_keys' = FALSE
    /\ read' = <<>>
    /\ loaded' = [t \in TableSet |-> -1]
    /\ total_loaded' = 0
    /\ log' = {}
    /\ report' = <<>>
    /\ UNCHANGED <<genVars, csv, dbExists, db, args, now, steps, results, output,
                   exitCode>>

\* The loader run twice in a row over the same five files.
InitReload ==
    /\ InitCommon
    /\ pc = "load_connect"
    /\ args = [skip_data |-> TRUE, skip_load |-> FALSE, skip_query |-> TRUE]
    /\ now = FirstNow
    /\ csv \in [customers   : ReloadFiles("customers"),
                 products    : ReloadFiles("products"),
                 orders      : ReloadFiles("orders"),
                 order_items : ReloadFiles("order_items"),
                 payments    : ReloadFiles("payments")]
    /\ InitStore

NextReload ==
    \/ NextLoad
    \/ load_database_again

SpecReload == InitReload /\ [][NextReload]_vars

-----------------------------------------------------------------------------
(* main.py                                                                 *)

\* The write of the first CSV file raises (the data directory cannot be
\* written): generate_data.main is left by the exception.
generate_raises ==
    /\ pc = "gen_customers"
    /\ pc' = "gen_raised"
    /\ UNCHANGED <<genVars, csv, loadVars, pipeVars>>

Returned(step, ok) == Append(steps, [step |-> step, ok |-> ok])

\* run_pipeline from step 2 on: where the control goes next, past the steps
\* the flags skip.
FromStep3 == IF args.skip_query THEN "complete" ELSE "step3"

\* A variant that loads the database whatever --skip-load says.
FromStep2_always == "load_connect"

FromStep2 == IF args.skip_load THEN FromStep3 ELSE "load_connect"

\* A variant that goes on to the next step whatever the step returned.
AfterStep_goOn(ok, next) == next

\* After a step returned: the rest of run_pipeline, or the return of False.
AfterStep(ok, next) == IF ok THEN next ELSE "failed"

\* run_pipeline up to the first step that is not skipped.
run_pipeline ==
    /\ pc = "start"
    /\ pc' = IF args.skip_data THEN FromStep2 ELSE "gen_import"
    /\ UNCHANGED <<genVars, csv, loadVars, pipeVars>>

\* step_1_generate_data after generate_data.main: True when the five files
\* exist, False when one is missing or an exception was raised.
Step1Result ==
    /\ pc = "gen_done"
    /\ \A t \in TableSet : csv[t] # Unknown /\ csv[t].exists

step_1_returns ==
    /\ pc \in {"gen_done", "gen_raised"}
    /\ steps' = Returned(1, Step1Result)
    /\ pc' = AfterStep(Step1Result, FromStep2)
    /\ UNCHANGED <<genVars, csv, loadVars, args, now, results, output, exitCode,
                   previous>>

\* step_2_load_database after load_database.main: True when the database
\* file exists (its tables are counted), False when it does not or an
\* exception was raised.
Step2Result == pc = "load_returned" /\ dbExists

step_2_returns ==
    /\ pc \in {"load_returned", "load_raised"}
    /\ steps' = Returned(2, Step2Result)
    /\ pc' = AfterStep(Step2Result, FromStep3)
    /\ UNCHANGED <<genVars, csv, loadVars, args, now, results, output, exitCode,
                   previous>>

\* A variant with a LEFT JOIN of the payments: an item of an order without a
\* payment gives a row too, with no payment.
JoinRows_leftPayments ==
    { [customer_id   |-> x[1].customer_id,
       order_id      |-> x[2].order_id,
       order_item_id |-> x[3].order_item_id,
       product_id    |-> x[4].product_id,
       payment_id    |-> NULL] :
      x \in { y \in db["customers"] \X db["orders"] \X db["order_items"]
                     \X db["products"] :
                /\ y[1].customer_id = y[2].customer_id
                /\ y[2].order_id = y[3].order_id
                /\ y[3].product_id = y[4].product_id } }

\* The five-table inner join of step_3_run_query, a row by its keys.
JoinRows ==
    { [customer_id   |-> x[1].customer_id,
       order_id      |-> x[2].order_id,
       order_item_id |-> x[3].order_item_id,
       product_id    |-> x[4].product_id,
       payment_id    |-> x[5].payment_id] :
      x \in { y \in db["customers"] \X db["orders"] \X db["order_items"]
                     \X db["products"] \X db["payments"] :
                /\ y[1].customer_id = y[2].customer_id
                /\ y[2].order_id = y[3].order_id
                /\ y[3].product_id = y[4].product_id
                /\ y[2].order_id = y[5].order_id } }

\* step_3_run_query: False when the database file does not exist, else the
\* rows of the join.
step_3_run_query ==
    /\ pc = "step3"
    /\ steps' = Returned(3, dbExists)
    /\ results' = IF dbExists THEN JoinRows ELSE results
    /\ pc' = AfterStep(dbExists, "step4")
    /\ UNCHANGED <<genVars, csv, loadVars, args, now, output, exitCode, previous>>

\* step_4_export_csv: output.csv is written, or the write raises.
step_4_export_csv ==
    /\ pc = "step4"
    /\ \E ok \in BOOLEAN :
         /\ steps' = Returned(4, ok)
         /\ output' = IF ok THEN [exists |-> TRUE, rows |-> results] ELSE output
         /\ pc' = AfterStep(ok, "complete")
    /\ UNCHANGED <<genVars, csv, loadVars, args, now, results, exitCode, previous>>

\* main: sys.exit(0 if success else 1).
ExitStatus(success) == IF success THEN 0 ELSE 1

main_exit ==
    /\ pc \in {"complete", "failed"}
    /\ exitCode' = ExitStatus(pc = "complete")
    /\ pc' = "exited"
    /\ UNCHANGED <<genVars, csv, loadVars, args, now, steps, results, output,
                   previous>>

\* python3 main.py with any flags, over a data directory and a database file
\* left by earlier runs.
Init ==
    /\ InitCommon
    /\ pc = "start"
    /\ args \in [skip_data : BOOLEAN, skip_load : BOOLEAN, skip_query : BOOLEAN]
    /\ now = FirstNow
    /\ csv = [t \in TableSet |-> Unknown]
    /\ InitStore

Next ==
    \/ run_pipeline
    \/ ImportGenerateData
    \/ generate_customers
    \/ generate_products
    \/ generate_orders
    \/ generate_order_items
    \/ update_order_totals
    \/ generate_payments
    \/ generate_raises
    \/ step_1_returns
    \/ create_connection
    \/ create_tables
    \/ load_csv_to_table
    \/ verify_data
    \/ step_2_returns
    \/ step_3_run_query
    \/ step_4_export_csv
    \/ main_exit

Spec == Init /\ [][Next]_vars

-----------------------------------------------------------------------------
(* Properties of the generator.                                            *)

\* Where the generator stands.
GenBeforeTotals == {"gen_import", "gen_customers", "gen_products", "gen_orders",
                    "gen_items", "gen_totals"}
ItemsReturned   == pc \notin GenBeforeTotals
GenBeforeDone   == GenBeforeTotals \cup {"gen_payments"}
GenerationDone  == pc \notin GenBeforeDone /\ payments # <<>>

\* The sum of `total` over the generated items of one order, 0 if it has none.
ItemTotalOf(order_id) ==
    SumSeq([i \in 1..Len(order_items) |->
              IF order_items[i].order_id = order_id THEN order_items[i].total ELSE 0])

ItemsOf(order_id) == {i \in 1..Len(order_items) : order_items[i].order_id = order_id}

\* C1: once generate_order_items has returned, every order's total_amount is
\* the sum of `total` over the generated items of that order (0 if it has
\* none), rounded to 2 decimal places.
C1_OrderTotals ==
    ItemsReturned =>
        \A i \in 1..Len(orders) :
            orders[i].total_amount = Round2(ItemTotalOf(orders[i].order_id), 1)

\* C1's case: an order with two items of totals 20.00 and 9.00 has the total
\* 29.00, beside an order with no item and the total 0.
C1_Witness ==
    /\ ItemsReturned
    /\ \E i, j \in 1..Len(orders) :
         /\ ItemsOf(orders[i].order_id) = {1, 2}
         /\ {order_items[1].total, order_items[2].total} = {2000, 900}
         /\ orders[i].total_amount = 2900
         /\ ItemsOf(orders[j].order_id) = {}
         /\ orders[j].total_amount = 0

OrdersWithId(order_id) == {j \in 1..Len(orders) : orders[j].order_id = order_id}

\* C2: after the whole generation, every payment's payment_amount is the
\* total_amount of the order it references, which is the total recomputed
\* from the order's items.
C2_PaymentAmounts ==
    GenerationDone =>
        \A i \in 1..Len(payments) :
            /\ OrdersWithId(payments[i].order_id) # {}
            /\ \A j \in OrdersWithId(payments[i].order_id) :
                 /\ payments[i].payment_amount = orders[j].total_amount
                 /\ payments[i].payment_amount =
                      Round2(ItemTotalOf(payments[i].order_id), 1)

\* C2's case: a payment for an order with items and a total that is not the
\* placeholder, with a fee that is not part of the amount.
C2_Witness ==
    /\ GenerationDone
    /\ \E i \in 1..Len(payments) :
         /\ payments[i].payment_amount = 2900
         /\ payments[i].transaction_fee > 0
         /\ Cardinality(ItemsOf(payments[i].order_id)) = 2

\* C3: generation makes exactly one payment per order: payment -> order_id is
\* a bijection between the payments and the orders.
C3_OnePaymentPerOrder ==
    GenerationDone =>
        /\ Len(payments) = NUM_PAYMENTS
        /\ Len(payments) = Len(orders)
        /\ \A i \in 1..Len(payments) : OrdersWithId(payments[i].order_id) # {}
        /\ \A j \in 1..Len(orders) :
             Cardinality({i \in 1..Len(payments) :
                            payments[i].order_id = orders[j].order_id}) = 1

\* C3's case: several orders, each with its payment.
C3_Witness ==
    /\ GenerationDone
    /\ Len(orders) = MaxOrders
    /\ Len(payments) = MaxOrders
    /\ payments[1].order_id # payments[2].order_id

CustomerIds == {customers[i].customer_id : i \in 1..Len(customers)}
ProductIds  == {products[i].product_id : i \in 1..Len(products)}
OrderIds    == {orders[i].order_id : i \in 1..Len(orders)}

\* C4: in the generated data every foreign key resolves: an order's
\* customer_id is a generated customer's id, an order item's order_id and
\* product_id are a generated order's and a generated product's ids.
C4_ForeignKeysResolve ==
    /\ \A i \in 1..Len(orders) : orders[i].customer_id \in CustomerIds
    /\ \A i \in 1..Len(order_items) :
         /\ order_items[i].order_id \in OrderIds
         /\ order_items[i].product_id \in ProductIds

\* C4's case: the generation is complete, with orders of different customers
\* and items of different orders and products.
C4_Witness ==
    /\ GenerationDone
    /\ Len(order_items) >= 2
    /\ \E i, j \in 1..Len(orders) : orders[i].customer_id # orders[j].customer_id
    /\ \E i, j \in 1..Len(order_items) :
         /\ order_items[i].order_id # order_items[j].order_id
         /\ order_items[i].product_id # order_items[j].product_id

\* C14: the generation keeps its order: the customers, the products, the
\* orders, the order items and the payments are generated in this order; no
\* order has its total_amount assigned before all the items are generated;
\* no payment is made before every order has its total assigned.
C14_TwoPass ==
    /\ products # <<>> => Len(customers) = NUM_CUSTOMERS
    /\ orders # <<>> => Len(products) = NUM_PRODUCTS
    /\ order_items # <<>> => Len(orders) = NUM_ORDERS
    /\ (\E i \in 1..Len(orders) : orders[i].total_amount # 0) =>
         Len(order_items) = NUM_ORDER_ITEMS
    /\ pc \in GenBeforeTotals => \A i \in 1..Len(orders) : orders[i].total_amount = 0
    /\ payments # <<>> =>
         /\ Len(order_items) = NUM_ORDER_ITEMS
         /\ csv["orders"].writes = 2
         /\ \A i \in 1..Len(orders) :
              orders[i].total_amount = Round2(ItemTotalOf(orders[i].order_id), 1)

\* C14's case: all the items are generated and the totals are assigned, one
\* of them not the placeholder, and no payment is made yet.
C14_Witness ==
    /\ pc = "gen_payments"
    /\ Len(order_items) = NUM_ORDER_ITEMS
    /\ NUM_ORDER_ITEMS = MaxOrderItems
    /\ \E i \in 1..Len(orders) : orders[i].total_amount = 2900
    /\ payments = <<>>

\* C15: a Shipped or Delivered order has a shipped_date, not before its
\* order_date; a Delivered order has a delivery_date, not before its
\* shipped_date; a Pending, Processing or Cancelled order has neither date and
\* a Shipped order has no delivery_date.  orders.csv has the dates so.
C15_DateOrdering ==
    \A i \in 1..Len(orders) :
        LET o == orders[i]
        IN  /\ o.status \in {order_statuses[k] : k \in 1..Len(order_statuses)}
            /\ o.status \in {"Shipped", "Delivered"} =>
                  o.shipped_date # None /\ o.shipped_date.v >= o.order_date
            /\ o.status = "Delivered" =>
                  o.delivery_date # None /\ o.delivery_date.v >= o.shipped_date.v
            /\ o.status \in {"Pending", "Processing", "Cancelled"} =>
                  o.shipped_date = None /\ o.delivery_date = None
            /\ o.status = "Shipped" => o.delivery_date = None
            /\ csv["orders"].rows[i].shipped_date = WriteCell(o.shipped_date)
            /\ csv["orders"].rows[i].delivery_date = WriteCell(o.delivery_date)
            /\ o.shipped_date = None <=> csv["orders"].rows[i].shipped_date = EmptyText

\* C15's case: a Shipped order with its shipped_date and no delivery_date,
\* beside a Cancelled order with neither date.
C15_Witness ==
    /\ GenerationDone
    /\ \E i, j \in 1..Len(orders) :
         /\ orders[i].status = "Shipped"
         /\ orders[i].shipped_date # None
         /\ orders[i].shipped_date.v > orders[i].order_date
         /\ orders[i].delivery_date = None
         /\ orders[j].status = "Cancelled"
         /\ csv["orders"].rows[j].shipped_date = EmptyText
         /\ csv["orders"].rows[j].delivery_date = EmptyText

\* C18: the generated customers have pairwise distinct emails.
C18_UniqueEmails ==
    \A i, j \in 1..Len(customers) :
        i # j => customers[i].email # customers[j].email

\* C19: every generated order item has a quantity of 1 to 10 and a discount
\* of 0 to its subtotal, the subtotal being unit_price * quantity; its total
\* is the subtotal less the discount, and is not negative.
C19_ItemArithmetic ==
    \A i \in 1..Len(order_items) :
        LET it       == order_items[i]
            subtotal == it.unit_price * it.quantity
        IN  /\ it.quantity \in 1..MaxQuantity
            /\ 0 <= it.discount /\ it.discount <= subtotal
            /\ it.total = subtotal - it.discount
            /\ it.total >= 0

\* C19's case: an item of the largest quantity with the largest discount,
\* beside an item whose discount was rounded to the cent.
C19_Witness ==
    \E i, j \in 1..Len(order_items) :
        /\ order_items[i].quantity = MaxQuantity
        /\ order_items[i].unit_price = 1050
        /\ order_items[i].discount = 2100
        /\ order_items[i].total = 8400
        /\ order_items[j].quantity = 3
        /\ order_items[j].discount = 175
        /\ order_items[j].total = 2735

\* The identifiers of a generated list are 1..n in the order of the list.
Sequential(list, key, n) ==
    Len(list) = n /\ \A i \in 1..n : list[i][key] = i

\* C21: each generator returns as many records as were asked for, with the
\* identifiers 1..N, each once, in the order of generation; the files have
\* the records in that order.
C21_SequentialIds ==
    /\ customers # <<>> => Sequential(customers, "customer_id", NUM_CUSTOMERS)
    /\ products # <<>> => Sequential(products, "product_id", NUM_PRODUCTS)
    /\ orders # <<>> => Sequential(orders, "order_id", NUM_ORDERS)
    /\ order_items # <<>> => Sequential(order_items, "order_item_id", NUM_ORDER_ITEMS)
    /\ payments # <<>> => Sequential(payments, "payment_id", NUM_PAYMENTS)
    /\ pc \notin {"gen_import", "gen_customers"} => customers # <<>>
    /\ GenerationDone =>
         /\ products # <<>> /\ orders # <<>> /\ order_items # <<>>
         /\ \A i \in 1..Len(payments) :
              csv["payments"].rows[i].payment_id = Text(i)
         /\ \A i \in 1..Len(order_items) :
              csv["order_items"].rows[i].order_item_id = Text(i)

\* C21's case: two records of every type, numbered 1 and 2.
C21_Witness ==
    /\ GenerationDone
    /\ NUM_CUSTOMERS = 2 /\ NUM_PRODUCTS = 2 /\ NUM_ORDERS = 2 /\ NUM_ORDER_ITEMS = 2
    /\ customers[2].customer_id = 2 /\ products[2].product_id = 2
    /\ orders[2].order_id = 2 /\ order_items[2].order_item_id = 2
    /\ payments[2].payment_id = 2
    /\ order_items[1].order_id = 2 /\ order_items[2].order_id = 2

\* The orders that the same seed gives when the clock reads n: the draws are
\* the same, the bounds of date_time_between move with the clock.
OrderAt(o, n) ==
    [o EXCEPT !.order_date    = @ - now + n,
              !.shipped_date  = IF @ = None THEN None ELSE Some(@.v - now + n),
              !.delivery_date = IF @ = None THEN None ELSE Some(@.v - now + n)]

OrdersAt(n) == [i \in 1..Len(orders) |-> OrderAt(orders[i], n)]

\* C12: the generated files are a function of the seed alone: a run with the
\* same seed at another reading of the clock writes the same orders.csv.
C12_SeedAlone ==
    GenerationDone =>
        \A n \in Nows : OrdersFile(OrdersAt(n), NoFile).rows = csv["orders"].rows

\* The rows of a file for which a cell has a given text.
FileRows(t, col, cell) ==
    {i \in 1..Len(csv[t].rows) : csv[t].rows[i][col] = cell}

\* The sum of the `total` cells of the rows of order_items.csv of one order.
FileItemSum(order_id) ==
    SumSeq([i \in 1..Len(csv["order_items"].rows) |->
              IF csv["order_items"].rows[i].order_id = order_id
              THEN csv["order_items"].rows[i].total.v ELSE 0])

\* C24: orders.csv is written twice: by generate_orders with the total_amount
\* 0 in every row, and again once the items are generated.  When the
\* generation is complete each row of orders.csv has for total_amount the sum
\* of `total` over the rows of its order in order_items.csv, which is also the
\* payment_amount of the one row of its order in payments.csv; the files hold
\* what the collections hold.
C24_FilesAgree ==
    /\ pc \in {"gen_items", "gen_totals"} =>
         /\ csv["orders"].writes = 1
         /\ Len(csv["orders"].rows) = NUM_ORDERS
         /\ \A i \in 1..Len(csv["orders"].rows) :
              csv["orders"].rows[i].total_amount = Str(0)
    /\ ItemsReturned =>
         /\ csv["orders"].writes = 2
         /\ csv["orders"].rows = [i \in 1..Len(orders) |-> OrderRow(orders[i])]
         /\ csv["order_items"].rows =
              [i \in 1..Len(order_items) |-> OrderItemRow(order_items[i])]
    /\ GenerationDone =>
         /\ csv["payments"].rows = [i \in 1..Len(payments) |-> PaymentRow(payments[i])]
         /\ \A i \in 1..Len(csv["orders"].rows) :
              LET row == csv["orders"].rows[i]
              IN  /\ row.total_amount = Str(FileItemSum(row.order_id))
                  /\ Cardinality(FileRows("payments", "order_id", row.order_id)) = 1
                  /\ \A j \in FileRows("payments", "order_id", row.order_id) :
                       csv["payments"].rows[j].payment_amount = row.total_amount

\* C24's case: the generation is complete, orders.csv was written twice, and
\* the row of an order with two items in order_items.csv has their sum, 29.00,
\* which its payment has too.
C24_Witness ==
    /\ GenerationDone
    /\ csv["orders"].writes = 2
    /\ \E i \in 1..Len(csv["orders"].rows) :
         /\ csv["orders"].rows[i].total_amount = Str(2900)
         /\ Cardinality(FileRows("order_items", "order_id",
                                 csv["orders"].rows[i].order_id)) = 2
         /\ \E j \in 1..Len(csv["payments"].rows) :
              /\ csv["payments"].rows[j].order_id = csv["orders"].rows[i].order_id
              /\ csv["payments"].rows[j].payment_amount = Str(2900)

-----------------------------------------------------------------------------
(* Properties of the loader.                                               *)

\* The row a row of a file is persisted as.
RowOf(cells) == [c \in DOMAIN cells |-> ToValue(cells[c])]

\* The i-th row of a file of table t breaks a constraint of the schema, given
\* the rows before it and the parent tables of the store.
RowViolates(t, rows, i) ==
    LET r == RowOf(rows[i])
    IN  \/ \E c \in NotNullCols(t) : r[c] = NULL
        \/ \E j \in 1..(i - 1) : RowOf(rows[j])[PrimaryKey(t)] = r[PrimaryKey(t)]
        \/ \E c \in UniqueCols(t) :
             r[c] # NULL /\ \E j \in 1..(i - 1) : RowOf(rows[j])[c] = r[c]
        \/ ~CheckHolds(t, r)
        \/ \E f \in ForeignKeys(t) :
             r[f[1]] # NULL /\ \A q \in db[f[2]] : q[PrimaryKey(f[2])] # r[f[1]]

FileViolates(t, rows) == \E i \in 1..Len(rows) : RowViolates(t, rows, i)

Reported(t) == {e \in log : e.table = t}

\* The latest load_csv_to_table call found a file of table t.
Loaded(t) == read # <<>> /\ read.table = t /\ read.file.exists

\* The rows of the order_items file just read whose product_id matches no
\* row of the products table.
NoSuchProduct ==
    {i \in 1..Len(read.file.rows) :
       /\ read.file.rows[i].product_id # EmptyText
       /\ \A q \in db["products"] :
            q.product_id # ToValue(read.file.rows[i].product_id)}

\* C5: the load of an order_items file with a row whose product_id matches
\* no row of products ends in an error reported with the table's name, and
\* no row of the file is persisted; when the first row is such a row, with
\* all its values and an existing order, the error is the foreign key's.
C5_UnknownProductFails ==
    Loaded("order_items") /\ NoSuchProduct # {} =>
        /\ Reported("order_items") # {}
        /\ loaded["order_items"] = 0
        /\ db["order_items"] = {}
        /\ (/\ 1 \in NoSuchProduct
            /\ \A c \in NotNullCols("order_items") : read.file.rows[1][c] # EmptyText
            /\ \E o \in db["orders"] : o.order_id = ToValue(read.file.rows[1].order_id))
           => [table |-> "order_items", what |-> "FOREIGN KEY"] \in log

\* C5's case: after a valid first row, the second row of order_items.csv names
\* a product that is not in the store, and the orders and products are.
C5_Witness ==
    /\ Loaded("order_items")
    /\ Len(read.file.rows) = 2
    /\ NoSuchProduct = {2}
    /\ db["products"] # {}
    /\ db["orders"] # {}
    /\ Reported("order_items") = {[table |-> "order_items", what |-> "FOREIGN KEY"]}

\* C6: the batch of a table is atomic: when a row of the file breaks a
\* constraint the table holds none of the file's rows, and otherwise it holds
\* all of them.
C6_BatchAtomic ==
    \A t \in TableSet :
        Loaded(t) =>
            IF FileViolates(t, read.file.rows)
            THEN db[t] = {} /\ Reported(t) # {}
            ELSE /\ db[t] = {RowOf(read.file.rows[i]) : i \in 1..Len(read.file.rows)}
                 /\ Cardinality(db[t]) = Len(read.file.rows)
                 /\ Reported(t) = {}

\* C6's case: the second row of a file fails after the first was inserted,
\* and the table is empty.
C6_Witness ==
    \E t \in TableSet :
        /\ Loaded(t)
        /\ Len(read.file.rows) = 2
        /\ ~RowViolates(t, read.file.rows, 1)
        /\ RowViolates(t, read.file.rows, 2)
        /\ db[t] = {}

\* C7: a load that fails leaves every table loaded before it as it was.
C7_EarlierTablesKept ==
    [][pc = "load_data" /\ (\E e \in log' : e.table = read'.table)
         => \A t \in TableSet \ {read'.table} : db'[t] = db[t]]_vars

\* C7's case: the load of order_items failed and the customers, the products
\* and the orders loaded before it are in the store.
C7_Witness ==
    /\ Loaded("order_items")
    /\ Reported("order_items") # {}
    /\ db["customers"] # {} /\ db["products"] # {} /\ db["orders"] # {}
    /\ loaded["customers"] = Cardinality(db["customers"])
    /\ loaded["orders"] = Cardinality(db["orders"])

\* The connection of this run has been made: create_connection returned it.
Connected == pc \in {"load_schema", "load_data", "load_verify"}

RemovalReported == [table |-> "", what |-> "Removed existing database"] \in log

C16_EmptyIsNull ==
    \A t \in TableSet :
        Loaded(t) =>
            LET rows == read.file.rows
                Stored(i) ==
                    {r \in db[t] :
                       \A c \in DOMAIN rows[i] :
                          /\ rows[i][c] = EmptyText => r[c] = NULL
                          /\ rows[i][c] # EmptyText =>
                                r[c] = [k |-> "val", v |-> rows[i][c].v]}
                Missing(i) == \E c \in NotNullCols(t) : rows[i][c] = EmptyText
            IN  /\ Reported(t) = {} => \A i \in 1..Len(rows) : Stored(i) # {}
                /\ (\E i \in 1..Len(rows) : Missing(i)) =>
                      db[t] = {} /\ Reported(t) # {}
                /\ (rows # <<>> /\ Missing(1)) =>
                      Reported(t) = {[table |-> t, what |-> "NOT NULL"]}

\* C16's case: orders.csv is loaded with an order whose shipped_date and
\* delivery_date are empty, and the table has the order with both NULL.
C16_Witness ==
    /\ Loaded("orders")
    /\ Reported("orders") = {}
    /\ \E i \in 1..Len(read.file.rows) :
         /\ read.file.rows[i].shipped_date = EmptyText
         /\ read.file.rows[i].status = Text("Pending")
    /\ \E r \in db["orders"] :
         r.shipped_date = NULL /\ r.delivery_date = NULL /\ r.status = Val("Pending")

\* The rows of a check whose difference is more than the tolerance.
Beyond(diffs) == {x \in DOMAIN diffs : diffs[x] > Tolerance}

\* C17: verify_data counts an order as mismatched exactly when its
\* total_amount and the sum of its items' totals differ by more than 0.01,
\* and a payment exactly when its payment_amount and its order's total_amount
\* do: a difference of exactly 0.01 is not counted.
C17_Tolerance ==
    report # <<>> =>
        /\ report.mismatched_totals = Cardinality(Beyond(OrderDiffs))
        /\ report.mismatched_payments = Cardinality(Beyond(PaymentDiffs))

\* load_csv_to_table has been called for table t.
Attempted(t) == loaded[t] # -1

\* C13: the tables are loaded in the order customers, products, orders,
\* order_items, payments: a table's batch is attempted only after the batch
\* of each table before it, so after the batch of each of its parents.
C13_ParentsFirst ==
    LET order == <<"customers", "products", "orders", "order_items", "payments">>
    IN  /\ \A i \in 1..Len(order) : \A j \in 1..(i - 1) :
              Attempted(order[i]) => Attempted(order[j])
        /\ \A t \in TableSet : \A f \in ForeignKeys(t) :
              Attempted(t) => Attempted(f[2])
        /\ read # <<>> =>
              /\ Attempted(read.table)
              /\ \A i \in 1..Len(order) : \A j \in 1..(i - 1) :
                    read.table = order[j] => ~Attempted(order[i])

\* C13's case: the batch of order_items is the latest, after the batches of
\* the products and the orders, of which the one of the orders failed, and
\* before the one of the payments.
C13_Witness ==
    /\ Loaded("order_items")
    /\ loaded["customers"] > 0 /\ loaded["products"] > 0
    /\ loaded["orders"] = 0 /\ Reported("orders") # {}
    /\ ~Attempted("payments")

\* The sum of the counts returned for the tables of a set.
RECURSIVE ReturnedSum(_)
ReturnedSum(S) ==
    IF S = {} THEN 0
    ELSE LET t == CHOOSE x \in S : TRUE
         IN  loaded[t] + ReturnedSum(S \ {t})

\* C20: the count load_csv_to_table returns for a table is the number of the
\* table's rows in the store after the call: the number of the rows of the
\* file when the load succeeds, 0 when the file is missing or the batch is
\* rolled back; the total reported is the sum of the counts returned.
C20_ReturnedCounts ==
    /\ \A t \in TableSet : Attempted(t) => loaded[t] = Cardinality(db[t])
    /\ \A t \in TableSet : Loaded(t) /\ Reported(t) = {} =>
          loaded[t] = Len(read.file.rows)
    /\ \A t \in TableSet : Reported(t) # {} => loaded[t] = 0
    /\ read # <<>> /\ ~read.file.exists => loaded[read.table] = 0
    /\ total_loaded = ReturnedSum({t \in TableSet : Attempted(t)})

\* C20's case: the customers were loaded from a file of two rows; the load of
\* the products failed at the second row of its file and returned 0, with no
\* product in the store; the file of the orders is missing.
C20_Witness ==
    /\ read # <<>> /\ read.table = "orders" /\ ~read.file.exists
    /\ loaded["customers"] = 2 /\ Cardinality(db["customers"]) = 2
    /\ loaded["products"] = 0 /\ db["products"] = {}
    /\ Reported("products") = {[table |-> "products", what |-> "CHECK"]}
    /\ loaded["orders"] = 0
    /\ total_loaded = 2

\* The four orphan checks of verify_data count nothing in the store.
NoOrphans ==
    /\ Orphans("orders", "customer_id", "customers") = 0
    /\ Orphans("order_items", "order_id", "orders") = 0
    /\ Orphans("order_items", "product_id", "products") = 0
    /\ Orphans("payments", "order_id", "orders") = 0

\* C23: whatever the files hold and whichever batches were committed or rolled
\* back, the store never has an order without its customer, an order item
\* without its order or its product, or a payment without its order: the four
\* orphan checks of verify_data count 0.
C23_NoOrphans ==
    /\ NoOrphans
    /\ report # <<>> =>
         /\ report.orphan_orders = 0
         /\ report.orphan_items = 0
         /\ report.orphan_products = 0
         /\ report.orphan_payments = 0

\* C23's case: the batch of order_items was rolled back for a missing parent,
\* the batches of orders and payments were committed, and the checks ran.
C23_Witness ==
    /\ pc = "load_returned"
    /\ report # <<>>
    /\ [table |-> "order_items", what |-> "FOREIGN KEY"] \in log
    /\ db["order_items"] = {}
    /\ db["orders"] # {}
    /\ db["payments"] # {}

\* C25: the loader run again over the same five files leaves the store as the
\* first run left it, with the same rows in every table: the second run
\* returns the same counts and reports the same errors as the first, none of
\* them caused by the rows the first run stored.
C25_Idempotent ==
    /\ (previous # <<>> /\ previous.verified
          /\ pc = "load_returned" /\ report # <<>>) =>
         /\ dbExists = previous.dbExists
         /\ db = previous.db
         /\ loaded = previous.loaded
         /\ total_loaded = previous.total_loaded
         /\ Reports = previous.log
    /\ (previous # <<>> /\ pc = "load_raised") => db = previous.db

\* C25's case: the second run removed the database file of the first, stored
\* a row in each of the five tables again and ended with the store of the
\* first run.
C25_Witness ==
    /\ previous # <<>>
    /\ previous.verified
    /\ pc = "load_returned"
    /\ report # <<>>
    /\ RemovalReported
    /\ \A t \in TableSet : loaded[t] = 1 /\ Cardinality(db[t]) = 1
    /\ db = previous.db

-----------------------------------------------------------------------------
(* Properties of the pipeline.                                             *)

ConstraintErrors == {"NOT NULL", "UNIQUE", "CHECK", "FOREIGN KEY"}

StepsRun == {steps[i].step : i \in 1..Len(steps)}
Failed   == \E i \in 1..Len(steps) : ~steps[i].ok

\* C8: a constraint violation during the insert of a table is a failure of
\* the pipeline: the load step is not reported successful and the exit code
\* is not 0.
C8_ViolationFailsPipeline ==
    (\E e \in log : e.what \in ConstraintErrors) =>
        /\ \A i \in 1..Len(steps) : steps[i].step = 2 => ~steps[i].ok
        /\ exitCode # 0

\* C9: a missing input file aborts the load step and fails the pipeline: no
\* later table is loaded, the step is not reported successful and the exit
\* code is not 0.
C9_MissingFileFailsPipeline ==
    \A i \in 1..Len(load_order) :
        [table |-> load_order[i], what |-> "CSV file not found"] \in log =>
            /\ \A j \in (i + 1)..Len(load_order) : loaded[load_order[j]] = -1
            /\ \A k \in 1..Len(steps) : steps[k].step = 2 => ~steps[k].ok
            /\ exitCode # 0

Skipped(step) ==
    CASE step = 1 -> args.skip_data
      [] step = 2 -> args.skip_load
      [] step = 3 -> args.skip_query
      [] step = 4 -> args.skip_query

\* C10: the steps that are not skipped run in the order generate, load,
\* query, export; once a step has failed no other step runs and the process
\* exits with a code that is not 0; the code is 0 only if every step that ran
\* reported success, and then every step that is not skipped ran.
C10_StepsInOrder ==
    /\ \A i \in 1..Len(steps) :
         /\ ~Skipped(steps[i].step)
         /\ \A j \in (i + 1)..Len(steps) : steps[i].step < steps[j].step
         /\ ~steps[i].ok => i = Len(steps)
         /\ \A n \in 1..(steps[i].step - 1) : Skipped(n) \/ n \in StepsRun
    /\ Failed => pc \in {"failed", "exited"}
    /\ pc = "exited" => (exitCode = 0 <=> ~Failed)
    /\ pc = "exited" /\ exitCode = 0 =>
         \A n \in 1..4 : Skipped(n) \/ n \in StepsRun
    /\ pc # "exited" => exitCode = -1

\* C10's case: the generation succeeded, the load failed, the query and the
\* export were not run and the exit code is 1.
C10_Witness ==
    /\ pc = "exited"
    /\ exitCode = 1
    /\ ~args.skip_query
    /\ steps = <<[step |-> 1, ok |-> TRUE], [step |-> 2, ok |-> FALSE]>>

\* C22: a skip flag leaves the artefact of its step as it was: with
\* --skip-load no step changes the database file or its rows, with --skip-data
\* no step writes a CSV file, with --skip-query no step computes the join or
\* writes output.csv, and a skipped step is never reported.
C22_SkipFrame ==
    [][ /\ args.skip_load =>
             /\ db' = db
             /\ dbExists' = dbExists
             /\ 2 \notin {steps'[i].step : i \in 1..Len(steps')}
        /\ args.skip_data =>
             /\ csv' = csv
             /\ 1 \notin {steps'[i].step : i \in 1..Len(steps')}
        /\ args.skip_query =>
             /\ results' = results
             /\ output' = output
             /\ {3, 4} \cap {steps'[i].step : i \in 1..Len(steps')} = {} ]_vars

\* C22's case: with --skip-data and --skip-load the query and the export ran
\* to the end over the database an earlier run left, which is as it was.
C22_Witness ==
    /\ pc = "exited"
    /\ exitCode = 0
    /\ args = [skip_data |-> TRUE, skip_load |-> TRUE, skip_query |-> FALSE]
    /\ StepsRun = {3, 4}
    /\ output.exists
    /\ dbExists
    /\ db = PriorDb
    /\ \A t \in TableSet : csv[t] = Unknown

\* The persisted rows of a generated order.
Persisted(order) == {r \in db["orders"] : r.order_id = Val(order.order_id)}

\* The orders this run generated were loaded, all of them.
OrdersLoaded == orders # <<>> /\ loaded["orders"] = Len(orders)

\* C26: after a successful load of the orders this run generated, each order
\* has one persisted row; its shipped_date and its delivery_date are NULL
\* where the generated order has None, and are the generated dates where it
\* has dates; the fields that are never None are not NULL.
C26_NullRoundTrip ==
    OrdersLoaded =>
        \A i \in 1..Len(orders) :
            /\ Cardinality(Persisted(orders[i])) = 1
            /\ \A r \in Persisted(orders[i]) :
                 /\ orders[i].shipped_date = None <=> r.shipped_date = NULL
                 /\ orders[i].delivery_date = None <=> r.delivery_date = NULL
                 /\ orders[i].shipped_date # None =>
                      r.shipped_date = Val(orders[i].shipped_date.v)
                 /\ orders[i].delivery_date # None =>
                      r.delivery_date = Val(orders[i].delivery_date.v)
                 /\ r.customer_id = Val(orders[i].customer_id)
                 /\ r.order_date = Val(orders[i].order_date)
                 /\ r.status = Val(orders[i].status)
                 /\ r.total_amount = Val(orders[i].total_amount)

\* C26's case: a Delivered order and a Pending one were generated and loaded;
\* the first is persisted with both dates, the second with neither.
C26_Witness ==
    /\ OrdersLoaded
    /\ pc = "exited"
    /\ Len(orders) = 2
    /\ orders[1].status = "Delivered" /\ orders[1].delivery_date # None
    /\ orders[2].status = "Pending" /\ orders[2].shipped_date = None
    /\ \E r \in Persisted(orders[1]) : r.shipped_date # NULL /\ r.delivery_date # NULL
    /\ \E r \in Persisted(orders[2]) : r.shipped_date = NULL /\ r.delivery_date = NULL

\* The rows of a result of the join that an order item, or an order, is in.
RowsOfItem(rows, item) == {r \in rows : r.order_item_id = item.order_item_id}
RowsOfOrder(rows, order) == {r \in rows : r.order_id = order.order_id}

\* The persisted order items whose order has a payment.
HasPayment(order_id) == \E py \in db["payments"] : py.order_id = order_id
PaidItems == {oi \in db["order_items"] : HasPayment(oi.order_id)}

\* The property of C27 for a result of the join.
OneRowPerPaidItem(rows) ==
    /\ \A oi \in db["order_items"] :
         Cardinality(RowsOfItem(rows, oi)) = IF oi \in PaidItems THEN 1 ELSE 0
    /\ \A o \in db["orders"] :
         \/ HasPayment(o.order_id) /\ \E oi \in db["order_items"] : oi.order_id = o.order_id
         \/ RowsOfOrder(rows, o) = {}
    /\ Cardinality(rows) = Cardinality(PaidItems)

\* C27: in the join that step 3 returns and step 4 exports to output.csv, a
\* persisted order item is in one row if its order has a payment and in none
\* if it has not; an order without items or without a payment is in no row;
\* there are as many rows as persisted order items whose order has a payment.
C27_JoinRows ==
    /\ pc = "step4" => OneRowPerPaidItem(results)
    /\ output.exists => OneRowPerPaidItem(output.rows)

\* C27's case: of two persisted order items of two orders, one order has a
\* payment; output.csv has the one row of its item.
C27_Witness ==
    /\ output.exists
    /\ Cardinality(db["order_items"]) = 2
    /\ Cardinality(db["orders"]) = 2
    /\ Cardinality(db["payments"]) = 1
    /\ Cardinality(PaidItems) = 1
    /\ Cardinality(output.rows) = 1
    /\ \A r \in output.rows : \E oi \in PaidItems : r.order_item_id = oi.order_item_id

\* The payments whose amount is not the total of their order, to the cent.
UnequalPayments ==
    {p \in db["payments"] :
       \E o \in PaidOrders(p) :
          o.total_amount # NULL /\ p.payment_amount # o.total_amount}

\* Every order of the store has the total of its items, to the cent.
TotalsExact ==
    \A o \in db["orders"] : o.total_amount # NULL => OrderDiff(o) = 0

\* C28: the check of the payment amounts counts payment rows only, so no more
\* than the payments whose amount differs from the total of their order; an
\* order without a payment is counted by no check.  With no payment row in
\* the store (the batch was rolled back, or the file is missing) the check
\* finds 0 mismatches, and if the totals of the orders are right every check
\* finds 0.
C28_PaymentsOnly ==
    report # <<>> =>
        /\ report.mismatched_payments <= Cardinality(UnequalPayments)
        /\ db["payments"] = {} => report.mismatched_payments = 0
        /\ db["payments"] = {} /\ TotalsExact =>
             /\ report.mismatched_totals = 0
             /\ report.orphan_orders = 0
             /\ report.orphan_items = 0
             /\ report.orphan_products = 0
             /\ report.orphan_payments = 0

\* C28's case: the batch of the payments was rolled back, the store has an
\* order of total 29.00 and its items, no payment, and every check found 0.
C28_Witness ==
    /\ report # <<>>
    /\ \E e \in log : e.table = "payments" /\ e.what \in ConstraintErrors
    /\ db["payments"] = {}
    /\ \E o \in db["orders"] : o.total_amount = Val(2900)
    /\ TotalsExact
    /\ report.mismatched_payments = 0
    /\ report.mismatched_totals = 0

====
